---- MODULE Spec2Model ----
(***************************************************************************)
(* Model of the redirect service (express application with the stealth     *)
(* engine, the parameter handler, the utility routes, the catch-all route  *)
(* and the redirect dispatcher).                                           *)
(*                                                                         *)
(* Strings are sequences of tokens.  A token is one character ("a", "/",   *)
(* "'") or one percent-encoded byte ("%22"), which stands for the three    *)
(* characters of the escape.  The fixed text of the HTML templates is      *)
(* carried by tokens of its own ("tpl:..."), so that every one-character   *)
(* token of a body comes from an interpolated value.                       *)
(*                                                                         *)
(* Math.random() is a fraction k / RandRes and the delays are exact        *)
(* rationals; the rounding of doubles is not modelled.  The minimal        *)
(* variant server.js (an unconditional 302 to TARGET_URL) is not part of   *)
(* this model.                                                             *)
(***************************************************************************)
EXTENDS Integers, Sequences, FiniteSets, TLC

VARIABLES target, listening, pc, req, out

vars == <<target, listening, pc, req, out>>

\* Math.random() returns k / RandRes for some k in 0 .. RandRes-1.
RandRes == 4

RandDraws == 0 .. (RandRes - 1)

Undefined == <<"undefined">>

NoDest == <<"no-destination">>

----------------------------------------------------------------------------
\* Generic string helpers (String.prototype.includes, toLowerCase, indexOf).

Range(s) == {s[i] : i \in 1 .. Len(s)}

Includes(s, f) ==
  \E i \in 1 .. (Len(s) - Len(f) + 1) : SubSeq(s, i, i + Len(f) - 1) = f

ToLower(c) ==
  CASE c = "M" -> "m"
    [] c = "G" -> "g"
    [] c = "N" -> "n"
    [] c = "S" -> "s"
    [] c = "C" -> "c"
    [] OTHER -> c

LowerSeq(s) == [i \in 1 .. Len(s) |-> ToLower(s[i])]

\* Position of the first occurrence of token c in s, 0 when absent.
IndexOf(s, c) ==
  IF c \in Range(s) THEN CHOOSE i \in 1 .. Len(s) : s[i] = c /\ \A j \in 1 .. (i - 1) : s[j] # c
  ELSE 0

----------------------------------------------------------------------------
\* StealthEngine: the regular expressions of analyzeRequest.

ScannerFragments ==
  { <<"n","i","k","t","o">>, <<"s","q","l","m","a","p">>, <<"n","m","a","p">>,
    <<"m","e","t","a","s","p","l","o","i","t">>, <<"b","u","r","p">>,
    <<"a","c","u","n","e","t","i","x">>, <<"n","e","s","s","u","s">>,
    <<"w","p","s","c","a","n">>, <<"d","i","r","b">>,
    <<"g","o","b","u","s","t","e","r">> }

BotFragments ==
  { <<"b","o","t">>, <<"c","r","a","w","l">>, <<"s","p","i","d","e","r">>,
    <<"f","a","c","e","b","o","o","k","e","x","t","e","r","n","a","l","h","i","t">>,
    <<"t","w","i","t","t","e","r","b","o","t">>,
    <<"l","i","n","k","e","d","i","n","b","o","t">> }

BrowserFragments ==
  { <<"m","o","z","i","l","l","a">>, <<"c","h","r","o","m","e">>,
    <<"s","a","f","a","r","i">>, <<"f","i","r","e","f","o","x">>,
    <<"e","d","g","e">> }

BrowserExclusion == { <<"b","o","t">>, <<"c","r","a","w","l">> }

\* /(f1|f2|...)/i.test(ua)
RegexTest(frags, ua) == \E f \in frags : Includes(LowerSeq(ua), f)

CFHeaders == {"cf-connecting-ip", "cf-ray"}

\* req.get('User-Agent') || ''
UserAgentOf(r) == IF r.ua = Undefined THEN <<>> ELSE r.ua

analyzeRequest(r) ==
  LET ua == UserAgentOf(r) IN
  [ isScanner |-> RegexTest(ScannerFragments, ua),
    isBot     |-> RegexTest(BotFragments, ua),
    isBrowser |-> RegexTest(BrowserFragments, ua) /\ ~RegexTest(BrowserExclusion, ua),
    hasCF     |-> (r.headers \cap CFHeaders) # {} ]

methods == <<"header", "meta", "js", "interactive">>

Methods == Range(methods)

\* Variant: the index is scaled by methods.length - 1.
RandomMethodShort(k) == methods[((k * (Len(methods) - 1)) \div RandRes) + 1]

\* methods[Math.floor(Math.random() * methods.length)], indices from 1 here.
RandomMethod(k) == methods[((k * Len(methods)) \div RandRes) + 1]

\* Variant: the browser rule is tried before the bot rule.
getRedirectMethodBrowserFirst(analysis, k) ==
  IF analysis.isScanner THEN "header"
  ELSE IF analysis.isBrowser THEN RandomMethod(k)
  ELSE IF analysis.isBot THEN "meta"
  ELSE "header"

\* Variant: the bot rule is tried before the scanner rule.
getRedirectMethodBotFirst(analysis, k) ==
  IF analysis.isBot THEN "meta"
  ELSE IF analysis.isScanner THEN "header"
  ELSE IF analysis.isBrowser THEN RandomMethod(k)
  ELSE "header"

getRedirectMethod(analysis, k) ==
  IF analysis.isScanner THEN "header"
  ELSE IF analysis.isBot THEN "meta"
  ELSE IF analysis.isBrowser THEN RandomMethod(k)
  ELSE "header"

\* Delays are kept exact: a delay d stands for d / RandRes milliseconds.
Ms(n) == n * RandRes

calculateDelay(method, kMeta, kJs) ==
  LET delays == [ header      |-> 0,
                  meta        |-> kMeta * 2000 + Ms(500),
                  js          |-> kJs * 3000 + Ms(1000),
                  interactive |-> 0 ]
  IN delays[method]

----------------------------------------------------------------------------
\* Percent-encoding as done by the URL class and by the query-string parser.

PctPairs ==
  { <<"\"", "%22">>, <<"<", "%3C">>, <<">", "%3E">>, <<"?", "%3F">>,
    <<"'", "%27">>, <<"&", "%26">>, <<"=", "%3D">>, <<" ", "%20">>,
    <<"+", "%2B">>, <<"/", "%2F">>, <<"#", "%23">>, <<"%", "%25">>,
    <<"\\", "%5C">>, <<",", "%2C">>, <<":", "%3A">> }

Pct(c) == (CHOOSE p \in PctPairs : p[1] = c)[2]

\* decodeURIComponent of one token.
PctDecode(t) ==
  IF \E p \in PctPairs : p[2] = t THEN (CHOOSE p \in PctPairs : p[2] = t)[1] ELSE t

\* The path percent-encode set of the URL standard, restricted to the
\* characters of the model (the standard adds the backtick and the braces).
PathEncodeSet == {" ", "\"", "#", "<", ">", "?"}

\* The special-query percent-encode set of the URL standard.
QueryEncodeSet == {" ", "\"", "#", "<", ">", "'"}

\* Path state of the URL parser for a special scheme: "\" is a separator,
\* the members of the path percent-encode set are escaped, the rest is kept.
PathStateToken(c) ==
  IF c = "\\" THEN "/"
  ELSE IF c \in PathEncodeSet THEN Pct(c)
  ELSE c

PathState(s) ==
  LET enc == [i \in 1 .. Len(s) |-> PathStateToken(s[i])] IN
  IF enc # <<>> /\ Head(enc) = "/" THEN enc ELSE <<"/">> \o enc

QueryState(s) ==
  [i \in 1 .. Len(s) |-> IF s[i] \in QueryEncodeSet THEN Pct(s[i]) ELSE s[i]]

\* application/x-www-form-urlencoded byte serializer: everything outside
\* the alphanumerics and * - . _ is escaped, the space becomes "+".
FormEncodeToken(c) ==
  IF c = " " THEN "+"
  ELSE IF \E p \in PctPairs : p[1] = c THEN Pct(c)
  ELSE c

FormEncode(s) == [i \in 1 .. Len(s) |-> FormEncodeToken(s[i])]

FormDecode(s) == [i \in 1 .. Len(s) |-> IF s[i] = "+" THEN " " ELSE PctDecode(s[i])]

RECURSIVE Split(_, _)
Split(s, sep) ==
  LET i == IndexOf(s, sep) IN
  IF i = 0 THEN <<s>>
  ELSE <<SubSeq(s, 1, i - 1)>> \o Split(SubSeq(s, i + 1, Len(s)), sep)

\* One "name=value" piece, split at its first "=" and decoded.
ParsePair(piece) ==
  LET i == IndexOf(piece, "=") IN
  IF i = 0 THEN <<FormDecode(piece), <<>> >>
  ELSE <<FormDecode(SubSeq(piece, 1, i - 1)), FormDecode(SubSeq(piece, i + 1, Len(piece)))>>

\* application/x-www-form-urlencoded parser: a list of <<name, value>>.
ParseUrlencoded(q) ==
  LET pieces == SelectSeq(Split(q, "&"), LAMBDA x : x # <<>>) IN
  [i \in 1 .. Len(pieces) |-> ParsePair(pieces[i])]

RECURSIVE SerializeUrlencoded(_)
SerializeUrlencoded(list) ==
  IF list = <<>> THEN <<>>
  ELSE LET p == Head(list)
           one == FormEncode(p[1]) \o <<"=">> \o FormEncode(p[2])
       IN IF Len(list) = 1 THEN one
          ELSE one \o <<"&">> \o SerializeUrlencoded(Tail(list))

----------------------------------------------------------------------------
\* The URL object: [origin, pathname, query], query without its "?".

Origins == {"https://example.org"}

\* new URL(baseUrl) throws unless baseUrl is an absolute URL.
ValidURL(s) == s # Undefined /\ s # <<>> /\ Head(s) \in Origins

ParseURL(s) ==
  LET rest == Tail(s)
      q    == IndexOf(rest, "?")
      rawPath  == IF q = 0 THEN rest ELSE SubSeq(rest, 1, q - 1)
      rawQuery == IF q = 0 THEN <<>> ELSE SubSeq(rest, q + 1, Len(rest))
  IN [ origin |-> Head(s), pathname |-> PathState(rawPath), query |-> QueryState(rawQuery) ]

\* url.pathname = value
SetPathname(url, value) == [url EXCEPT !.pathname = PathState(value)]

searchParamsHas(url, name) ==
  \E p \in Range(ParseUrlencoded(url.query)) : p[1] = name

\* Variant: url.searchParams.append(name, value).
searchParamsAppend(url, name, value) ==
  [url EXCEPT !.query = SerializeUrlencoded(Append(ParseUrlencoded(url.query), <<name, value>>))]

\* url.searchParams.set(name, value): the first pair named name takes the
\* value and the later ones are removed, or the pair is appended; the query
\* of the URL is then serialized again from the whole list.
searchParamsSet(url, name, value) ==
  LET list == ParseUrlencoded(url.query)
      hits == {i \in 1 .. Len(list) : list[i][1] = name}
      first == CHOOSE i \in hits : \A j \in hits : i <= j
      updated ==
        IF hits = {} THEN Append(list, <<name, value>>)
        ELSE SubSeq(list, 1, first - 1) \o << <<name, value>> >>
             \o SelectSeq(SubSeq(list, first + 1, Len(list)), LAMBDA p : p[1] # name)
  IN [url EXCEPT !.query = SerializeUrlencoded(updated)]

\* url.toString()
Href(url) ==
  <<url.origin>> \o url.pathname
    \o (IF url.query = <<>> THEN <<>> ELSE <<"?">> \o url.query)

----------------------------------------------------------------------------
\* ParamHandler.

CriticalFragments ==
  { <<"c","f","_">>, <<"_","_","c","f">>, <<"t","o","k","e","n">>, <<"a","u","t","h">> }

IsCriticalKey(key) == \E f \in CriticalFragments : Includes(key, f)

extractCriticalParams(query) == SelectSeq(query, LAMBDA p : IsCriticalKey(p[1]))

RECURSIVE SetEach(_, _)
SetEach(url, query) ==
  IF query = <<>> THEN url
  ELSE SetEach(searchParamsSet(url, Head(query)[1], Head(query)[2]), Tail(query))

RECURSIVE EnsureEach(_, _)
EnsureEach(url, criticalParams) ==
  IF criticalParams = <<>> THEN url
  ELSE LET p == Head(criticalParams)
           next == IF searchParamsHas(url, p[1]) THEN url
                   ELSE searchParamsSet(url, p[1], p[2])
       IN EnsureEach(next, Tail(criticalParams))

\* Variant: the destination is the concatenation baseUrl + originalUrl.
buildDestinationConcat(baseUrl, originalUrl, query, criticalParams) ==
  IF originalUrl # <<"/">> THEN baseUrl \o originalUrl ELSE baseUrl

\* Defined for a valid baseUrl; the caller models the exception otherwise.
buildDestination(baseUrl, originalUrl, query, criticalParams) ==
  LET url0 == ParseURL(baseUrl)
      url1 == IF originalUrl # <<"/">> THEN SetPathname(url0, originalUrl) ELSE url0
      url2 == SetEach(url1, query)
      url3 == EnsureEach(url2, criticalParams)
  IN Href(url3)

----------------------------------------------------------------------------
\* What express derives from the request line: req.path and req.query.

reqPath(originalUrl) ==
  LET q == IndexOf(originalUrl, "?") IN
  IF q = 0 THEN originalUrl ELSE SubSeq(originalUrl, 1, q - 1)

\* The requests of the model carry distinct, bracket-free parameter names,
\* for which the parsed query is the list of decoded <<name, value>> pairs.
reqQuery(originalUrl) ==
  LET q == IndexOf(originalUrl, "?") IN
  IF q = 0 THEN <<>> ELSE ParseUrlencoded(SubSeq(originalUrl, q + 1, Len(originalUrl)))

----------------------------------------------------------------------------
\* The inputs of the model.

\* process.env.TARGET_URL: unset, not a URL, or an absolute URL.
Targets ==
  { Undefined,
    <<"n","o","t">>,
    <<"https://example.org">>,
    <<"https://example.org","/","l","o","g","i","n">>,
    <<"https://example.org","/","l","?","a","=","0","&","k","=","7","&","a","=","5">> }

\* Request targets as received (req.originalUrl).
OriginalUrls ==
  { <<"/">>,
    <<"/","?","a","=","1">>,
    <<"/","v","e","r","i","f","y","?","c","f","_","c","l","e","a","r","a","n","c","e","=","a","b","c">>,
    <<"/","v","e","r","i","f","y">>,
    <<"/","v","?","a","=","1","&","t","o","k","e","n","=","x","y","z">>,
    <<"/","p","?","x","=","\"",">","<","s","c","r","i","p","t",">">>,
    <<"/","p","?","x","=","%22","%3E","%3C","s","c","r","i","p","t","%3E">>,
    <<"/","a","'","b">>,
    <<"/","a","\"","b">>,
    <<"/","v","?","x","=","a","+","b","%26","c","%3D","d">>,
    <<"/","p","?","k","=","9","&","a","u","t","h","=","%27">>,
    <<"/","r","o","b","o","t","s",".","t","x","t">>,
    <<"/","f","a","v","i","c","o","n",".","i","c","o">>,
    <<"/","h","e","a","l","t","h">>,
    <<"/","h","e","a","l","t","h","?","a","=","1">> }

\* User-Agent header values; Undefined when the header is absent.
UserAgents ==
  { Undefined,
    <<"M","o","z","i","l","l","a"," ","C","h","r","o","m","e">>,
    <<"G","o","o","g","l","e","b","o","t">>,
    <<"M","o","z","i","l","l","a"," ","G","o","o","g","l","e","b","o","t">>,
    <<"M","o","z","i","l","l","a"," ","s","p","i","d","e","r">>,
    <<"s","q","l","m","a","p">>,
    <<"N","i","k","t","o"," ","b","o","t">>,
    <<"M","o","z","i","l","l","a"," ","s","q","l","m","a","p">>,
    <<"f","a","c","e","b","o","o","k","e","x","t","e","r","n","a","l","h","i","t">>,
    <<"c","u","r","l">>,
    <<"n","m","a","p"," ","s","p","i","d","e","r">> }

\* The proxy headers present on the request.
HeaderSets == { {}, {"cf-ray"} }

RobotsPath == <<"/","r","o","b","o","t","s",".","t","x","t">>

FaviconPath == <<"/","f","a","v","i","c","o","n",".","i","c","o">>

HealthPath == <<"/","h","e","a","l","t","h">>

UtilityPaths == {RobotsPath, FaviconPath, HealthPath}

NoReq == [originalUrl |-> <<>>, ua |-> Undefined, headers |-> {}]

NoAnalysis == [isScanner |-> FALSE, isBot |-> FALSE, isBrowser |-> FALSE, hasCF |-> FALSE]

\* The request-scoped data: response headers set so far, the values the
\* catch-all handler computed, and what it wrote, in order (trace).
NoOut ==
  [ headers |-> {}, classified |-> FALSE, analysis |-> NoAnalysis,
    method |-> "none", delay |-> 0, dest |-> NoDest,
    trace |-> <<>>, logs |-> <<>>, responses |-> <<>> ]

----------------------------------------------------------------------------
\* The responses.

Response(status, location, body) ==
  [status |-> status, location |-> location, body |-> body]

\* ${delay/1000} and ${delay}: one token for the number.
Seconds(delay) == <<"num:" \o ToString(delay) \o "/" \o ToString(1000 * RandRes)>>

Millis(delay) == <<"num:" \o ToString(delay) \o "/" \o ToString(RandRes)>>

MetaBody(destination, delay) ==
  <<"tpl:meta:<meta http-equiv=\"refresh\" content=\"">> \o Seconds(delay)
    \o <<"tpl:meta:;url=">> \o destination \o <<"tpl:meta:\">...</html>">>

JsBody(destination, delay) ==
  <<"tpl:js:animation: load ">> \o Seconds(delay)
    \o <<"tpl:js:s ease-in-out;...window.location.href = \"">> \o destination
    \o <<"tpl:js:\", ">> \o Millis(delay) \o <<"tpl:js:);</script>...</html>">>

InteractiveBody(destination) ==
  <<"tpl:interactive:<button class=\"btn\" onclick=\"window.location.href='">>
    \o destination \o <<"tpl:interactive:'\">Continue</button>...</html>">>

\* Variant: the 'header' case has no break and falls through to 'meta'.
executeRedirectFallthrough(method, destination, delay) ==
  CASE method = "header"      -> << Response(302, destination, <<>>),
                                    Response(200, <<>>, MetaBody(destination, delay)) >>
    [] method = "meta"        -> << Response(200, <<>>, MetaBody(destination, delay)) >>
    [] method = "js"          -> << Response(200, <<>>, JsBody(destination, delay)) >>
    [] method = "interactive" -> << Response(200, <<>>, InteractiveBody(destination)) >>
    [] OTHER                  -> << >>

\* The responses written by the switch, in order.
executeRedirect(method, destination, delay) ==
  CASE method = "header"      -> << Response(302, destination, <<>>) >>
    [] method = "meta"        -> << Response(200, <<>>, MetaBody(destination, delay)) >>
    [] method = "js"          -> << Response(200, <<>>, JsBody(destination, delay)) >>
    [] method = "interactive" -> << Response(200, <<>>, InteractiveBody(destination)) >>
    [] OTHER                  -> << >>

StealthHeaders ==
  { <<"Server", "nginx">>, <<"X-Content-Type-Options", "nosniff">>,
    <<"X-Frame-Options", "SAMEORIGIN">>,
    <<"Cache-Control", "no-cache, no-store, must-revalidate">> }

generateFingerprint(r) ==
  [ session |-> "md5:12hex", ua |-> UserAgentOf(r) ]

\* Variant: console.log is called after executeRedirect.
DispatchThenLog(written) == [i \in 1 .. Len(written) |-> "send"] \o <<"log">>

\* The order of the handler's effects: console.log, then executeRedirect.
LogThenDispatch(written) == <<"log">> \o [i \in 1 .. Len(written) |-> "send"]

LogLine(fingerprint, method, path, analysis) ==
  [ s |-> fingerprint.session, m |-> method, p |-> path,
    ua |-> IF analysis.isBrowser THEN "browser" ELSE "other" ]

----------------------------------------------------------------------------
\* The process.

Init ==
  /\ target \in Targets
  /\ listening = FALSE
  /\ pc = "start"
  /\ req = NoReq
  /\ out = NoOut

\* app.listen: the server starts to accept connections; CONFIG.target is
\* only printed.
Listen ==
  /\ pc = "start"
  /\ listening' = TRUE
  /\ pc' = "idle"
  /\ UNCHANGED <<target, req, out>>

\* A request is accepted and passes the header middleware.
Middleware ==
  /\ pc = "idle"
  /\ listening
  /\ \E u \in OriginalUrls, a \in UserAgents, h \in HeaderSets :
       req' = [originalUrl |-> u, ua |-> a, headers |-> h]
  /\ out' = [NoOut EXCEPT !.headers = StealthHeaders]
  /\ pc' = "routing"
  /\ UNCHANGED <<target, listening>>

Send(response) ==
  /\ out' = [out EXCEPT !.trace = Append(@, "send"), !.responses = Append(@, response)]
  /\ pc' = "responded"
  /\ UNCHANGED <<target, listening, req>>

\* The route of each handler: the three utility routes are registered
\* first and end the request, the catch-all route gets what is left.
RobotsRoute == reqPath(req.originalUrl) = RobotsPath

FaviconRoute == reqPath(req.originalUrl) = FaviconPath

HealthRoute == reqPath(req.originalUrl) = HealthPath

CatchAllRoute == reqPath(req.originalUrl) \notin UtilityPaths

Robots ==
  /\ pc = "routing"
  /\ RobotsRoute
  /\ Send(Response(200, <<>>, <<"tpl:robots:User-agent: *\nAllow: /">>))

Favicon ==
  /\ pc = "routing"
  /\ FaviconRoute
  /\ Send(Response(204, <<>>, <<>>))

Health ==
  /\ pc = "routing"
  /\ HealthRoute
  /\ Send(Response(200, <<>>, <<"tpl:health:{status: ok, timestamp}">>))

\* The catch-all handler once Math.random has given the method and the
\* delay: the request-scoped data after it.  When new URL(CONFIG.target)
\* throws, nothing after it runs and the framework's error handler answers
\* 500.
handleRedirect(r, analysis, method, delay) ==
  LET fingerprint == generateFingerprint(r)
      query == reqQuery(r.originalUrl)
      criticalParams == extractCriticalParams(query)
      computed == [out EXCEPT !.classified = TRUE, !.analysis = analysis,
                              !.method = method, !.delay = delay]
  IN IF ValidURL(target)
     THEN LET destination == buildDestination(target, r.originalUrl, query, criticalParams)
              written == executeRedirect(method, destination, delay)
          IN [computed EXCEPT
                !.dest = destination,
                !.logs = Append(@, LogLine(fingerprint, method, reqPath(r.originalUrl), analysis)),
                !.trace = LogThenDispatch(written),
                !.responses = written]
     ELSE [computed EXCEPT
                !.trace = <<"send">>,
                !.responses = << Response(500, <<>>, <<"tpl:error">>) >>]

\* The catch-all route: the method and the delay are those the draws of
\* Math.random can give.
CatchAll ==
  /\ pc = "routing"
  /\ CatchAllRoute
  /\ \E method \in {getRedirectMethod(analyzeRequest(req), k) : k \in RandDraws} :
       \E delay \in {calculateDelay(method, kMeta, kJs) : kMeta, kJs \in RandDraws} :
         out' = handleRedirect(req, analyzeRequest(req), method, delay)
  /\ pc' = "responded"
  /\ UNCHANGED <<target, listening, req>>

\* The response is complete; the request-scoped data is dropped.
Finish ==
  /\ pc = "responded"
  /\ pc' = "idle"
  /\ req' = NoReq
  /\ out' = NoOut
  /\ UNCHANGED <<target, listening>>

Next == Listen \/ Middleware \/ Robots \/ Favicon \/ Health \/ CatchAll \/ Finish

Spec == Init /\ [][Next]_vars

----------------------------------------------------------------------------
\* Reading a destination back: its path and its query, split at the first "?".

DestPathname(dest) ==
  LET rest == Tail(dest)
      q == IndexOf(rest, "?")
  IN IF q = 0 THEN rest ELSE SubSeq(rest, 1, q - 1)

DestQuery(dest) ==
  LET rest == Tail(dest)
      q == IndexOf(rest, "?")
  IN IF q = 0 THEN <<>> ELSE SubSeq(rest, q + 1, Len(rest))

Names(pairs) == {pairs[i][1] : i \in 1 .. Len(pairs)}

Answered == pc = "responded"

\* The catch-all handler built a destination and handed it to the dispatcher.
Dispatched == Answered /\ out.dest # NoDest

Payload == <<"\"", ">", "<", "s", "c", "r", "i", "p", "t", ">">>

CarriesPayload == \E p \in Range(reqQuery(req.originalUrl)) : Includes(p[2], Payload)

HtmlMethods == {"meta", "js", "interactive"}

----------------------------------------------------------------------------
\* C1: the path of the destination is the request's path (query string
\* excluded) when that path is not "/", and the path of the base URL when
\* it is "/"; the request's query never becomes part of the path.
C1_PathPreserved ==
  Dispatched =>
    LET path == reqPath(req.originalUrl) IN
    /\ DestPathname(out.dest) =
         (IF path # <<"/">> THEN PathState(path) ELSE ParseURL(target).pathname)
    /\ "%3F" \notin Range(DestPathname(out.dest))

\* C2: when a query value contains "><script> and the method is meta, js
\* or interactive, the body holds neither the value nor any raw ", < or >.
C2_NoRawMarkup ==
  (Answered /\ CarriesPayload /\ out.method \in HtmlMethods) =>
    \A i \in 1 .. Len(out.responses) :
      /\ Range(out.responses[i].body) \cap {"\"", "<", ">"} = {}
      /\ ~Includes(out.responses[i].body, Payload)

C2_Witness ==
  /\ Dispatched /\ CarriesPayload /\ out.method = "js"
  /\ Payload \o <<>> = SubSeq(req.originalUrl, Len(req.originalUrl) - Len(Payload) + 1,
                              Len(req.originalUrl))
  /\ Len(out.responses) = 1
  /\ Includes(out.responses[1].body, out.dest)
  /\ "%22" \in Range(DestPathname(out.dest))
  /\ "%22" \in Range(DestQuery(out.dest))

\* C3: in each HTML body no character that ends the string or attribute
\* around the destination appears raw: no " in the meta attribute, no " or
\* \ in the js string, no ', " or \ in the onclick string.
C3_QuotesEscaped ==
  Dispatched =>
    \A i \in 1 .. Len(out.responses) :
      LET body == Range(out.responses[i].body) IN
      /\ out.method = "meta" => body \cap {"\""} = {}
      /\ out.method = "js" => body \cap {"\"", "\\"} = {}
      /\ out.method = "interactive" => body \cap {"'", "\"", "\\"} = {}

\* C4: the server never listens while the target is not a valid absolute
\* URL, and no request is answered by the error that new URL raises.
C4_NoListenUnconfigured ==
  /\ listening => ValidURL(target)
  /\ Answered => \A i \in 1 .. Len(out.responses) : out.responses[i].status # 500

\* C5: an accepted request has exactly one handler to run, an answered one
\* has exactly one response, the method of the catch-all route is one of
\* the four, and the dispatcher's answer is one of its four responses.
C5_ExactlyOneResponse ==
  /\ pc = "routing" =>
       /\ Len(out.responses) = 0
       /\ Cardinality({h \in {"robots", "favicon", "health", "catch-all"} :
                         \/ h = "robots" /\ RobotsRoute
                         \/ h = "favicon" /\ FaviconRoute
                         \/ h = "health" /\ HealthRoute
                         \/ h = "catch-all" /\ CatchAllRoute}) = 1
  /\ Answered => Len(out.responses) = 1
  /\ (Answered /\ out.classified) => out.method \in Methods
  /\ Dispatched =>
       /\ Len(out.responses) = 1
       /\ \/ out.responses[1] = Response(302, out.dest, <<>>)
          \/ out.responses[1] = Response(200, <<>>, MetaBody(out.dest, out.delay))
          \/ out.responses[1] = Response(200, <<>>, JsBody(out.dest, out.delay))
          \/ out.responses[1] = Response(200, <<>>, InteractiveBody(out.dest))

C5_Witness ==
  /\ Dispatched /\ out.method = "header" /\ out.analysis.isBrowser
  /\ Len(out.responses) = 1 /\ out.responses[1].status = 302

\* C6 as stated: a user-agent with a bot fragment that is not a browser
\* gets isBot, method meta and a delay in [500, 2500) ms, whatever else it
\* contains.  (The precondition is the narrowest reading of "not matching
\* the browser exclusion": no bot|crawl match and isBrowser false.)
C6_BotAlwaysMeta ==
  (Dispatched /\ RegexTest(BotFragments, UserAgentOf(req))
     /\ ~RegexTest(BrowserExclusion, UserAgentOf(req)) /\ ~out.analysis.isBrowser) =>
    /\ out.analysis.isBot
    /\ out.method = "meta"
    /\ out.delay >= Ms(500) /\ out.delay < Ms(2500)

\* C6 amended: a user-agent with a bot fragment and no scanner fragment
\* gets isBot, method meta and a delay in [500, 2500) ms, whatever browser
\* fragments it contains.
C6_BotWithoutScannerMeta ==
  (Answered /\ out.classified /\ RegexTest(BotFragments, UserAgentOf(req))
     /\ ~RegexTest(ScannerFragments, UserAgentOf(req))) =>
    /\ out.analysis.isBot
    /\ out.method = "meta"
    /\ out.delay >= Ms(500) /\ out.delay < Ms(2500)

C6_Witness ==
  /\ Answered /\ out.classified
  /\ RegexTest(BotFragments, UserAgentOf(req))
  /\ ~RegexTest(ScannerFragments, UserAgentOf(req))
  /\ out.analysis.isBrowser
  /\ out.method = "meta" /\ out.delay > Ms(500)

\* C7: a user-agent with a scanner fragment gets isScanner, method header
\* and delay 0 whatever else it contains, and the dispatcher answers 302
\* with the destination as location.
C7_ScannerHeader ==
  (Answered /\ out.classified /\ RegexTest(ScannerFragments, UserAgentOf(req))) =>
    /\ out.analysis.isScanner
    /\ out.method = "header"
    /\ out.delay = 0
    /\ Dispatched => out.responses = << Response(302, out.dest, <<>>) >>

C7_Witness ==
  /\ Dispatched
  /\ RegexTest(ScannerFragments, UserAgentOf(req))
  /\ out.analysis.isBot /\ out.analysis.hasCF
  /\ out.responses = << Response(302, out.dest, <<>>) >>

\* C8: for a browser user-agent without bot or scanner fragment the method
\* is one of the four, and the methods the random draw can give are all four.
C8_BrowserAnyMethod ==
  (Answered /\ out.classified /\ RegexTest(BrowserFragments, UserAgentOf(req))
     /\ ~RegexTest(BotFragments, UserAgentOf(req))
     /\ ~RegexTest(ScannerFragments, UserAgentOf(req))) =>
    /\ out.method \in Methods
    /\ {getRedirectMethod(out.analysis, k) : k \in RandDraws} = Methods

C8_Witness ==
  /\ Answered /\ out.classified /\ RegexTest(BrowserFragments, UserAgentOf(req))
  /\ ~RegexTest(BotFragments, UserAgentOf(req))
  /\ ~RegexTest(ScannerFragments, UserAgentOf(req))
  /\ out.method = "interactive"

FixedResponse(path) ==
  CASE path = RobotsPath  -> Response(200, <<>>, <<"tpl:robots:User-agent: *\nAllow: /">>)
    [] path = FaviconPath -> Response(204, <<>>, <<>>)
    [] path = HealthPath  -> Response(200, <<>>, <<"tpl:health:{status: ok, timestamp}">>)

\* C10: a request the catch-all route dispatches has one log line, written
\* before its response; a request to a utility path has no log line, runs
\* no classification or destination building, and gets the response fixed
\* for its path.
C10_LogBeforeResponse ==
  /\ Dispatched =>
       /\ Len(out.logs) = 1
       /\ out.trace = <<"log", "send">>
       /\ out.logs[1].p = reqPath(req.originalUrl)
  /\ (Answered /\ reqPath(req.originalUrl) \in UtilityPaths) =>
       /\ out.logs = <<>>
       /\ ~out.classified
       /\ out.dest = NoDest
       /\ out.trace = <<"send">>
       /\ out.responses = << FixedResponse(reqPath(req.originalUrl)) >>

C10_Witness ==
  /\ Dispatched /\ out.method = "meta"
  /\ out.trace = <<"log", "send">>
  /\ Len(out.logs) = 1 /\ out.logs[1].m = "meta"

====
